---- MODULE Spec2Model ----
(***************************************************************************)
(* A model of lrulist.go: LRUList, a capacity-bounded key/value cache kept *)
(* as a hash index (cacheMap) over a circular doubly-linked list of        *)
(* LRUListNode, with head pointer `cache`.                                  *)
(*                                                                         *)
(* Pointers are node ids: the heap maps 1..n to the n nodes allocated so   *)
(* far, and NULL is the nil pointer.  Each public method runs wholly under *)
(* the list's lock, so Set, Get and Traverse are one action each.  The     *)
(* caller-supplied callbacks (evict, visit) are opaque: what they return   *)
(* is chosen nondeterministically at each call.                            *)
(*                                                                         *)
(* Besides the program's state the model carries history variables, which  *)
(* no action reads to decide what the program does: `last` (the last call  *)
(* and its results), evictLog / visitLog (the callback invocations of the  *)
(* last call), touched (the stored keys, most recently touched first) and  *)
(* written (the value of the latest successful Set of each stored key).    *)
(* A touch of a key is a Set or a Get of it that returns no error.         *)
(*                                                                         *)
(* A second family of specifications (SpecConc, SpecConcFair) runs the     *)
(* same methods from several threads and shows the lock: `lock` is the     *)
(* state of lruc.lock and thr[t] is where thread t stands in its call.     *)
(* There a call is several steps: it acquires the lock, runs its body      *)
(* (a Set that calls evict stops while the callback runs, the head already *)
(* stepped back), and releases the lock as its deferred unlock runs.       *)
(***************************************************************************)
EXTENDS Integers, Sequences, FiniteSets, TLC

\* Bounds of the model.
MaxCap == 2
NumKeys == 3
NumVals == 2
NumThreads == 2

Keys == 1..NumKeys
Vals == 1..NumVals
Caps == 1..MaxCap
Threads == 1..NumThreads

\* The nil pointer (and the nil interface value returned beside an error).
NULL == 0

\* Error values.
NoErr == "nil"
KeyMiss == "key doesn't hit"
EvictErr == "evict failed"
VisitErr == "visit failed"
Panic == "panic: nil pointer dereference"
Hang == "does not return"

VARIABLES cap, cacheMap, cache, evict, heap,
          last, evictLog, visitLog, touched, written,
          lock, thr

vars == <<cap, cacheMap, cache, evict, heap, last, evictLog, visitLog, touched, written,
          lock, thr>>

\* The history variables of the one-call-at-a-time specifications.
hist == <<last, evictLog, visitLog, touched, written>>

\* len(lruc.cacheMap)
MapLen(m) == Cardinality(DOMAIN m)

\* m with m[k] = n added or overwritten.
MapPut(m, k, n) == [x \in (DOMAIN m) \cup {k} |-> IF x = k THEN n ELSE m[x]]

\* delete(m, k)
MapDelete(m, k) == [x \in (DOMAIN m) \ {k} |-> m[x]]

\* &LRUListNode{key: key, val: val}: the next free node id, links nil.
NewNode(h, key, val) ==
    h \o <<[key |-> key, val |-> val, prev |-> NULL, next |-> NULL]>>

\* MoveToHead without the assignment item.next.prev = item.prev.
MoveToHeadDropsBackLink(h, head, item) ==
    LET p  == h[item].prev
        n  == h[item].next
        h2 == [h EXCEPT ![p].next = n]
        t  == h2[head].prev
        h3 == [h2 EXCEPT ![item].prev = t, ![item].next = head]
        t2 == h3[head].prev
        h4 == [h3 EXCEPT ![t2].next = item]
    IN  [h4 EXCEPT ![head].prev = item]

\* Move the node item (not the head) to the head of the list; the caller
\* then sets lruc.cache = item.  Go evaluates the pointer operands and the
\* right-hand sides of a tuple assignment first and then assigns left to
\* right.
MoveToHead(h, head, item) ==
    LET p  == h[item].prev
        n  == h[item].next
        h1 == [h EXCEPT ![p].next = n]
        h2 == [h1 EXCEPT ![n].prev = p]
        t  == h2[head].prev
        h3 == [h2 EXCEPT ![item].prev = t, ![item].next = head]
        t2 == h3[head].prev
        h4 == [h3 EXCEPT ![t2].next = item]
    IN  [h4 EXCEPT ![head].prev = item]

\* SetHit with the value written through lruc.cache before the head is
\* moved to the promoted node.
SetHitStaleHead(m, c, h, key, val) ==
    LET item == m[key]
        h1 == IF item # c THEN MoveToHead(h, c, item) ELSE h
    IN  [cacheMap |-> m, cache |-> item,
         heap |-> [h1 EXCEPT ![c].val = val],
         err |-> NoErr, calls |-> <<>>]

\* SetHit that overwrites the value where the node is, without promoting it.
SetHitInPlace(m, c, h, key, val) ==
    LET item == m[key]
    IN  [cacheMap |-> m, cache |-> c,
         heap |-> [h EXCEPT ![item].val = val],
         err |-> NoErr, calls |-> <<>>]

\* Set, key present: promote the node, then overwrite the head's value.
SetHit(m, c, h, key, val) ==
    LET item == m[key]
        h1 == IF item # c THEN MoveToHead(h, c, item) ELSE h
    IN  [cacheMap |-> m, cache |-> item,
         heap |-> [h1 EXCEPT ![item].val = val],
         err |-> NoErr, calls |-> <<>>]

\* Set, key absent and len(cacheMap) < cap: allocate a node and link it in
\* before the head (or as a one-node cycle), and make it the head.
SetInsert(m, c, h, key, val) ==
    LET h0 == NewNode(h, key, val)
        item == Len(h0)
        h1 == IF c = NULL
              THEN [h0 EXCEPT ![item].prev = item, ![item].next = item]
              ELSE LET t  == h0[c].prev
                       ha == [h0 EXCEPT ![item].prev = t, ![item].next = c]
                       t2 == ha[c].prev
                       hb == [ha EXCEPT ![t2].next = item]
                   IN  [hb EXCEPT ![c].prev = item]
    IN  [cacheMap |-> MapPut(m, key, item), cache |-> item, heap |-> h1,
         err |-> NoErr, calls |-> <<>>]

\* SetReplace with evict called before the head is stepped back: it is
\* handed the value of the head, not of the least recently used node.
SetReplaceEvictsHeadValue(m, c, h, ev, key, val, cbRet) ==
    IF c = NULL
    THEN [cacheMap |-> m, cache |-> c, heap |-> h, err |-> Panic, calls |-> <<>>]
    ELSE LET c1 == h[c].prev
             calls == IF ev THEN <<[arg |-> h[c].val, ret |-> cbRet]>> ELSE <<>>
         IN  IF ev /\ cbRet # NoErr
             THEN [cacheMap |-> m, cache |-> c1, heap |-> h,
                   err |-> cbRet, calls |-> calls]
             ELSE [cacheMap |-> MapPut(MapDelete(m, h[c1].key), key, c1),
                   cache |-> c1,
                   heap |-> [h EXCEPT ![c1].key = key, ![c1].val = val],
                   err |-> NoErr, calls |-> calls]

\* SetReplace going on with the replacement when evict has returned an
\* error, which it still returns.
SetReplaceIgnoresEvictErr(m, c, h, ev, key, val, cbRet) ==
    IF c = NULL
    THEN [cacheMap |-> m, cache |-> c, heap |-> h, err |-> Panic, calls |-> <<>>]
    ELSE LET c1 == h[c].prev
             calls == IF ev THEN <<[arg |-> h[c1].val, ret |-> cbRet]>> ELSE <<>>
         IN  [cacheMap |-> MapPut(MapDelete(m, h[c1].key), key, c1),
              cache |-> c1,
              heap |-> [h EXCEPT ![c1].key = key, ![c1].val = val],
              err |-> IF ev THEN cbRet ELSE NoErr, calls |-> calls]

\* SetReplace with the old key deleted from the index before evict is called.
\* An error from evict leaves the key deleted.
SetReplaceDeletesFirst(m, c, h, ev, key, val, cbRet) ==
    IF c = NULL
    THEN [cacheMap |-> m, cache |-> c, heap |-> h, err |-> Panic, calls |-> <<>>]
    ELSE LET c1 == h[c].prev
             calls == IF ev THEN <<[arg |-> h[c1].val, ret |-> cbRet]>> ELSE <<>>
         IN  IF ev /\ cbRet # NoErr
             THEN [cacheMap |-> MapDelete(m, h[c1].key), cache |-> c1, heap |-> h,
                   err |-> cbRet, calls |-> calls]
             ELSE [cacheMap |-> MapPut(MapDelete(m, h[c1].key), key, c1),
                   cache |-> c1,
                   heap |-> [h EXCEPT ![c1].key = key, ![c1].val = val],
                   err |-> NoErr, calls |-> calls]

\* SetReplace without delete(lruc.cacheMap, lruc.cache.key).
SetReplaceKeepsOldKey(m, c, h, ev, key, val, cbRet) ==
    IF c = NULL
    THEN [cacheMap |-> m, cache |-> c, heap |-> h, err |-> Panic, calls |-> <<>>]
    ELSE LET c1 == h[c].prev
             calls == IF ev THEN <<[arg |-> h[c1].val, ret |-> cbRet]>> ELSE <<>>
         IN  IF ev /\ cbRet # NoErr
             THEN [cacheMap |-> m, cache |-> c1, heap |-> h,
                   err |-> cbRet, calls |-> calls]
             ELSE [cacheMap |-> MapPut(m, key, c1),
                   cache |-> c1,
                   heap |-> [h EXCEPT ![c1].key = key, ![c1].val = val],
                   err |-> NoErr, calls |-> calls]

\* SetReplace without lruc.cacheMap[key] = lruc.cache.
SetReplaceForgetsIndex(m, c, h, ev, key, val, cbRet) ==
    IF c = NULL
    THEN [cacheMap |-> m, cache |-> c, heap |-> h, err |-> Panic, calls |-> <<>>]
    ELSE LET c1 == h[c].prev
             calls == IF ev THEN <<[arg |-> h[c1].val, ret |-> cbRet]>> ELSE <<>>
         IN  IF ev /\ cbRet # NoErr
             THEN [cacheMap |-> m, cache |-> c1, heap |-> h,
                   err |-> cbRet, calls |-> calls]
             ELSE [cacheMap |-> MapDelete(m, h[c1].key),
                   cache |-> c1,
                   heap |-> [h EXCEPT ![c1].key = key, ![c1].val = val],
                   err |-> NoErr, calls |-> calls]

\* Set, key absent and len(cacheMap) >= cap: step the head back to the
\* least recently used node, hand its value to evict (when one is set), and
\* reuse the node for (key, val).  cbRet is what evict returns if called.
SetReplace(m, c, h, ev, key, val, cbRet) ==
    IF c = NULL
    THEN [cacheMap |-> m, cache |-> c, heap |-> h, err |-> Panic, calls |-> <<>>]
    ELSE LET c1 == h[c].prev
             calls == IF ev THEN <<[arg |-> h[c1].val, ret |-> cbRet]>> ELSE <<>>
         IN  IF ev /\ cbRet # NoErr
             THEN [cacheMap |-> m, cache |-> c1, heap |-> h,
                   err |-> cbRet, calls |-> calls]
             ELSE [cacheMap |-> MapPut(MapDelete(m, h[c1].key), key, c1),
                   cache |-> c1,
                   heap |-> [h EXCEPT ![c1].key = key, ![c1].val = val],
                   err |-> NoErr, calls |-> calls]

\* Set with the capacity test off by one (<= for <).
SetBodyOffByOne(m, c, h, cp, ev, key, val, cbRet) ==
    IF key \in DOMAIN m THEN SetHit(m, c, h, key, val)
    ELSE IF MapLen(m) <= cp THEN SetInsert(m, c, h, key, val)
    ELSE SetReplace(m, c, h, ev, key, val, cbRet)

\* Set with the capacity test made before the lookup of the key.
SetBodyCapacityFirst(m, c, h, cp, ev, key, val, cbRet) ==
    IF MapLen(m) >= cp /\ c # NULL THEN SetReplace(m, c, h, ev, key, val, cbRet)
    ELSE IF key \in DOMAIN m THEN SetHit(m, c, h, key, val)
    ELSE SetInsert(m, c, h, key, val)

\* func (lruc *LRUList) Set(key, val interface{}) error
SetBody(m, c, h, cp, ev, key, val, cbRet) ==
    IF key \in DOMAIN m THEN SetHit(m, c, h, key, val)
    ELSE IF MapLen(m) < cp THEN SetInsert(m, c, h, key, val)
    ELSE SetReplace(m, c, h, ev, key, val, cbRet)

\* Get without the assignment lruc.cache = item after the promotion.
GetBodyKeepsHead(m, c, h, key) ==
    IF key \in DOMAIN m
    THEN LET item == m[key]
             h1 == IF item # c THEN MoveToHead(h, c, item) ELSE h
         IN  [cache |-> c, heap |-> h1, ret |-> h1[c].val, err |-> NoErr]
    ELSE [cache |-> c, heap |-> h, ret |-> NULL, err |-> KeyMiss]

\* Get with lruc.cache = item done before the hit test, so that a miss
\* stores the map's zero value (nil) in the head.
GetBodyMissClearsHead(m, c, h, key) ==
    IF key \in DOMAIN m
    THEN LET item == m[key]
             h1 == IF item # c THEN MoveToHead(h, c, item) ELSE h
         IN  [cache |-> item, heap |-> h1, ret |-> h1[item].val, err |-> NoErr]
    ELSE [cache |-> NULL, heap |-> h, ret |-> NULL, err |-> KeyMiss]

\* Get without the test item != lruc.cache: the head is spliced out and in
\* like any other node.
GetBodyNoHeadGuard(m, c, h, key) ==
    IF key \in DOMAIN m
    THEN LET item == m[key]
             h1 == MoveToHead(h, c, item)
         IN  [cache |-> item, heap |-> h1, ret |-> h1[item].val, err |-> NoErr]
    ELSE [cache |-> c, heap |-> h, ret |-> NULL, err |-> KeyMiss]

\* func (lruc *LRUList) Get(key interface{}) (interface{}, error)
GetBody(m, c, h, key) ==
    IF key \in DOMAIN m
    THEN LET item == m[key]
             h1 == IF item # c THEN MoveToHead(h, c, item) ELSE h
         IN  [cache |-> item, heap |-> h1, ret |-> h1[item].val, err |-> NoErr]
    ELSE [cache |-> c, heap |-> h, ret |-> NULL, err |-> KeyMiss]

\* What the n-th call of visit returns when the failAt-th one fails (none
\* does if failAt is 0).
VisitRet(n, failAt) == IF n = failAt THEN VisitErr ELSE NoErr

\* The loop of Traverse from node cur on: seen are the calls of visit made
\* so far.  fuel is the number of nodes: a walk that has not come back to
\* the head by then never does.
RECURSIVE TraverseLoop(_, _, _, _, _, _)
TraverseLoop(c, h, cur, seen, failAt, fuel) ==
    IF cur = c THEN [cache |-> c, heap |-> h, seen |-> seen, err |-> NoErr]
    ELSE IF fuel = 0 THEN [cache |-> c, heap |-> h, seen |-> seen, err |-> Hang]
    ELSE LET ret == VisitRet(Len(seen) + 1, failAt)
             s == Append(seen, [arg |-> h[cur].val, ret |-> ret])
         IN  IF ret # NoErr
             THEN [cache |-> c, heap |-> h, seen |-> s, err |-> ret]
             ELSE TraverseLoop(c, h, h[cur].next, s, failAt, fuel - 1)

\* Traverse walking with lruc.cache itself as the cursor: the head is left
\* on the last node visited.
TraverseBodyMovesHead(c, h, failAt) ==
    IF c = NULL THEN [cache |-> c, heap |-> h, seen |-> <<>>, err |-> NoErr]
    ELSE LET ret == VisitRet(1, failAt)
             s == <<[arg |-> h[c].val, ret |-> ret]>>
             r == IF ret # NoErr
                  THEN [cache |-> c, heap |-> h, seen |-> s, err |-> ret]
                  ELSE TraverseLoop(c, h, h[c].next, s, failAt, Len(h))
         IN  [r EXCEPT !.cache = IF r.err = NoErr THEN h[c].prev ELSE c]

\* func (lruc *LRUList) Traverse(visit func(interface{}) error) error
\* The result carries the head and the nodes as Traverse leaves them.
TraverseBody(c, h, failAt) ==
    IF c = NULL THEN [cache |-> c, heap |-> h, seen |-> <<>>, err |-> NoErr]
    ELSE LET ret == VisitRet(1, failAt)
             s == <<[arg |-> h[c].val, ret |-> ret]>>
         IN  IF ret # NoErr
             THEN [cache |-> c, heap |-> h, seen |-> s, err |-> ret]
             ELSE TraverseLoop(c, h, h[c].next, s, failAt, Len(h))

\* sync.RWMutex{}: no writer, no readers.
Unlocked == [w |-> NULL, r |-> {}]

\* A thread that is in no call of the list.
NoStore == [cacheMap |-> <<>>, cache |-> NULL, heap |-> <<>>]
Outside == [pc |-> "out", op |-> "none", inner |-> "none", key |-> NULL, val |-> NULL,
            pre |-> NoStore, err |-> NoErr]

\* NewLRUList(cap, evict)
Init ==
    /\ cap \in Caps
    /\ evict \in BOOLEAN
    /\ cacheMap = <<>>
    /\ cache = NULL
    /\ heap = <<>>
    /\ last = [op |-> "New", key |-> NULL, err |-> NoErr, ret |-> NULL]
    /\ evictLog = <<>>
    /\ visitLog = <<>>
    /\ touched = <<>>
    /\ written = <<>>
    /\ lock = Unlocked
    /\ thr = [t \in Threads |-> Outside]

\* NewLRUList(cap, evict) with any capacity: it validates nothing.
AnyCaps == (0 - 1)..MaxCap

InitAnyCap ==
    /\ cap \in AnyCaps
    /\ evict \in BOOLEAN
    /\ cacheMap = <<>>
    /\ cache = NULL
    /\ heap = <<>>
    /\ last = [op |-> "New", key |-> NULL, err |-> NoErr, ret |-> NULL]
    /\ evictLog = <<>>
    /\ visitLog = <<>>
    /\ touched = <<>>
    /\ written = <<>>
    /\ lock = Unlocked
    /\ thr = [t \in Threads |-> Outside]

Set(key, val, cbRet) ==
    LET r == SetBody(cacheMap, cache, heap, cap, evict, key, val, cbRet)
        gone == (DOMAIN cacheMap) \ (DOMAIN r.cacheMap)
    IN  /\ cacheMap' = r.cacheMap
        /\ cache' = r.cache
        /\ heap' = r.heap
        /\ last' = [op |-> "Set", key |-> key, err |-> r.err, ret |-> NULL]
        /\ evictLog' = r.calls
        /\ visitLog' = <<>>
        /\ touched' = IF r.err = NoErr
                      THEN <<key>> \o SelectSeq(touched, LAMBDA k : k # key /\ k \notin gone)
                      ELSE touched
        /\ written' = IF r.err = NoErr
                      THEN [k \in ((DOMAIN written) \ gone) \cup {key} |->
                               IF k = key THEN val ELSE written[k]]
                      ELSE written
        /\ UNCHANGED <<cap, evict, lock, thr>>

Get(key) ==
    LET r == GetBody(cacheMap, cache, heap, key)
    IN  /\ cache' = r.cache
        /\ heap' = r.heap
        /\ last' = [op |-> "Get", key |-> key, err |-> r.err, ret |-> r.ret]
        /\ evictLog' = <<>>
        /\ visitLog' = <<>>
        /\ touched' = IF r.err = NoErr THEN <<key>> \o SelectSeq(touched, LAMBDA k : k # key)
                      ELSE touched
        /\ UNCHANGED <<cap, evict, cacheMap, written, lock, thr>>

Traverse(failAt) ==
    LET r == TraverseBody(cache, heap, failAt)
    IN  /\ last' = [op |-> "Traverse", key |-> NULL, err |-> r.err, ret |-> NULL]
        /\ visitLog' = r.seen
        /\ evictLog' = <<>>
        /\ cache' = r.cache
        /\ heap' = r.heap
        /\ UNCHANGED <<cap, evict, cacheMap, touched, written, lock, thr>>

\* What evict may return in Set(key, val): a result is drawn only when the
\* call invokes evict.
EvictRets(key, val) ==
    IF SetBody(cacheMap, cache, heap, cap, evict, key, val, NoErr).calls = <<>>
    THEN {NoErr}
    ELSE {NoErr, EvictErr}

Next ==
    \/ \E key \in Keys, val \in Vals : \E cbRet \in EvictRets(key, val) : Set(key, val, cbRet)
    \/ \E key \in Keys : Get(key)
    \/ \E failAt \in 0..Len(heap) : Traverse(failAt)

Spec == Init /\ [][Next]_vars

\* The list built with any integer capacity.
SpecAnyCap == InitAnyCap /\ [][Next]_vars

(***************************************************************************)
(* The methods called from several threads.                                *)
(***************************************************************************)

\* Get taking the lock as Traverse does, for reading.
LockModeGetShared(op) == IF op = "Set" THEN "W" ELSE "R"

\* A lock that its holder may take again.
CanLockReentrant(t) == lock.w \in {NULL, t} /\ lock.r = {}

\* The lock each method takes: Set and Get call lruc.lock.Lock(), Traverse
\* calls lruc.lock.RLock().
LockMode(op) == IF op = "Traverse" THEN "R" ELSE "W"

\* Lock() returns once no thread holds the lock in either mode.
CanLock(t) == lock.w = NULL /\ lock.r = {}

\* RLock() returns once no thread holds the lock for writing.
CanRLock(t) == lock.w = NULL

\* Set after evict has returned cbRet, the head c1 being the node stepped
\* back to: return the error, or reuse the node for (key, val).
SetAfterEvict(m, c1, h, key, val, cbRet) ==
    IF cbRet # NoErr
    THEN [cacheMap |-> m, cache |-> c1, heap |-> h, err |-> cbRet]
    ELSE [cacheMap |-> MapPut(MapDelete(m, h[c1].key), key, c1),
          cache |-> c1,
          heap |-> [h EXCEPT ![c1].key = key, ![c1].val = val],
          err |-> NoErr]

\* Thread t, outside any call, calls op and gets the lock; or, blocked in a
\* call made from inside evict, gets the lock for that inner call.
Acquire(t, op) ==
    /\ \/ thr[t].pc = "out"
       \/ thr[t].pc = "inner" /\ op = thr[t].inner
    /\ IF LockMode(op) = "W" THEN CanLock(t) ELSE CanRLock(t)
    /\ lock' = IF LockMode(op) = "W"
               THEN [lock EXCEPT !.w = t]
               ELSE [lock EXCEPT !.r = @ \cup {t}]
    /\ thr' = IF thr[t].pc = "out"
              THEN [thr EXCEPT ![t] = [@ EXCEPT !.pc = "body", !.op = op]]
              ELSE [thr EXCEPT ![t] = [@ EXCEPT !.pc = "nested"]]
    /\ UNCHANGED <<cap, evict, cacheMap, cache, heap, hist>>

\* The body of Set(key, val) in thread t, up to its return or to the call
\* of evict, which it enters with the head stepped back.
BodySet(t, key, val) ==
    /\ thr[t].pc = "body" /\ thr[t].op = "Set"
    /\ LET r == SetBody(cacheMap, cache, heap, cap, evict, key, val, NoErr)
       IN  IF r.calls = <<>>
           THEN /\ cacheMap' = r.cacheMap
                /\ cache' = r.cache
                /\ heap' = r.heap
                /\ thr' = [thr EXCEPT ![t] = [@ EXCEPT !.pc = "ret", !.err = r.err]]
           ELSE /\ cache' = heap[cache].prev
                /\ thr' = [thr EXCEPT ![t] =
                             [@ EXCEPT !.pc = "evict", !.key = key, !.val = val,
                                       !.pre = [cacheMap |-> cacheMap, cache |-> cache,
                                                heap |-> heap]]]
                /\ UNCHANGED <<cacheMap, heap>>
    /\ UNCHANGED <<cap, evict, lock, hist>>

\* evict returns cbRet to the Set of thread t, which finishes its body.
EvictReturns(t, cbRet) ==
    /\ thr[t].pc = "evict"
    /\ LET r == SetAfterEvict(cacheMap, cache, heap, thr[t].key, thr[t].val, cbRet)
       IN  /\ cacheMap' = r.cacheMap
           /\ cache' = r.cache
           /\ heap' = r.heap
           /\ thr' = [thr EXCEPT ![t] = [@ EXCEPT !.pc = "ret", !.err = r.err]]
    /\ UNCHANGED <<cap, evict, lock, hist>>

\* evict, running in the Set of thread t, calls op on the same list: the
\* inner call asks for the lock.
EvictReenters(t, op) ==
    /\ thr[t].pc = "evict"
    /\ thr' = [thr EXCEPT ![t] = [@ EXCEPT !.pc = "inner", !.inner = op]]
    /\ UNCHANGED <<cap, evict, cacheMap, cache, heap, lock, hist>>

\* The body of Get(key) in thread t.
BodyGet(t, key) ==
    /\ thr[t].pc = "body" /\ thr[t].op = "Get"
    /\ LET r == GetBody(cacheMap, cache, heap, key)
       IN  /\ cache' = r.cache
           /\ heap' = r.heap
           /\ thr' = [thr EXCEPT ![t] = [@ EXCEPT !.pc = "ret", !.err = r.err]]
    /\ UNCHANGED <<cap, evict, cacheMap, lock, hist>>

\* The body of Traverse(visit) in thread t.
BodyTraverse(t, failAt) ==
    /\ thr[t].pc = "body" /\ thr[t].op = "Traverse"
    /\ LET r == TraverseBody(cache, heap, failAt)
       IN  /\ cache' = r.cache
           /\ heap' = r.heap
           /\ thr' = [thr EXCEPT ![t] = [@ EXCEPT !.pc = "ret", !.err = r.err]]
    /\ UNCHANGED <<cap, evict, cacheMap, lock, hist>>

\* defer lruc.lock.Unlock() / RUnlock(): the call of thread t returns.
Release(t) ==
    /\ thr[t].pc = "ret"
    /\ lock' = IF LockMode(thr[t].op) = "W"
               THEN [lock EXCEPT !.w = NULL]
               ELSE [lock EXCEPT !.r = @ \ {t}]
    /\ thr' = [thr EXCEPT ![t] = Outside]
    /\ UNCHANGED <<cap, evict, cacheMap, cache, heap, hist>>

\* The steps of thread t once it holds the lock, while evict returns and
\* does not call the list; its Sets store values of vs.
Progress(t, vs) ==
    \/ \E key \in Keys, val \in vs : BodySet(t, key, val)
    \/ \E cbRet \in {NoErr, EvictErr} : EvictReturns(t, cbRet)
    \/ \E key \in Keys : BodyGet(t, key)
    \/ \E failAt \in 0..Len(heap) : BodyTraverse(t, failAt)
    \/ Release(t)

\* A step of thread t.
ThreadStep(t, vs) ==
    \/ \E op \in {"Set", "Get", "Traverse"} : Acquire(t, op)
    \/ \E op \in {"Set", "Get", "Traverse"} : EvictReenters(t, op)
    \/ Progress(t, vs)

NextConc == \E t \in Threads : ThreadStep(t, Vals)

\* Several threads calling one list.
SpecConc == Init /\ [][NextConc]_vars

\* Whether a call returns depends on no value stored: the specification of
\* the calls that go on running stores one value, the least.
LeastVal == {v \in Vals : \A w \in Vals : v <= w}

NextConcFair == \E t \in Threads : ThreadStep(t, LeastVal)

\* Several threads calling one list, every thread that holds the lock going
\* on running: a goroutine that is not blocked is scheduled again.
SpecConcFair ==
    Init /\ [][NextConcFair]_vars /\ \A t \in Threads : WF_vars(Progress(t, LeastVal))

(***************************************************************************)
(* Properties.  In an action property the unprimed variables are the store *)
(* when the call began and the primed ones the store when it returned.     *)
(***************************************************************************)

\* The step is a Set of a key absent from the index of a store at capacity.
SetAtCapacity ==
    /\ last'.op = "Set"
    /\ last'.key \notin DOMAIN cacheMap
    /\ MapLen(cacheMap) >= cap

\* The keys a step removes from the index.
Evicted == (DOMAIN cacheMap) \ (DOMAIN cacheMap')

\* The stored values, most recently touched key first.
RecencyOrder == [i \in 1..Len(touched) |-> written[touched[i]]]

\* The values visit was called with, in call order.
Visited == [i \in 1..Len(visitLog) |-> visitLog[i].arg]

\* C1: when Set is called with an absent key on a store at capacity and
\* the eviction callback returns an error, Set returns that error and the
\* store is exactly what it was before the call: same head, same index,
\* same nodes (keys, values and links, hence the same order).
C1_FailedEvictLeavesStoreUnchanged ==
    [][(SetAtCapacity /\ evictLog' # <<>> /\ evictLog'[1].ret # NoErr)
         => /\ last'.err = evictLog'[1].ret
            /\ cacheMap' = cacheMap
            /\ cache' = cache
            /\ heap' = heap]_vars

\* C2: whenever a Set of an absent key on a full store evicts an entry, the
\* evicted key is the stored key whose last touch is the oldest.
C2_EvictsLeastRecentlyTouched ==
    [][(SetAtCapacity /\ last'.err = NoErr)
         => Evicted = {touched[Len(touched)]}]_vars

\* C3: after every operation the index holds at most cap keys; and a
\* successful Set of an absent key on a store holding exactly cap keys
\* removes exactly one stored key and adds the new one, so that the count
\* stays cap.
C3_CapacityBound ==
    [][/\ MapLen(cacheMap') <= cap'
       /\ (SetAtCapacity /\ MapLen(cacheMap) = cap /\ last'.err = NoErr)
            => /\ \E old \in DOMAIN cacheMap :
                     DOMAIN cacheMap' = ((DOMAIN cacheMap) \ {old}) \cup {last'.key}
               /\ MapLen(cacheMap') = cap]_vars

\* A Set has just evicted an entry of a full store of two nodes and put its
\* key in: evict was called and returned no error.
C3_Witness ==
    /\ cap = 2
    /\ last.op = "Set"
    /\ last.err = NoErr
    /\ evictLog # <<>>
    /\ MapLen(cacheMap) = cap
    /\ last.key \in DOMAIN cacheMap

\* C4: Get of a stored key returns the value of the latest successful Set
\* of that key: the last Get did, and a Get of any stored key would now.
C4_ReadYourWrite ==
    /\ (last.op = "Get" /\ last.err = NoErr)
         => (last.key \in DOMAIN written /\ last.ret = written[last.key])
    /\ \A k \in DOMAIN written :
         LET g == GetBody(cacheMap, cache, heap, k)
         IN  g.err = NoErr /\ g.ret = written[k]

\* A Get has just returned the second value from a full store of two nodes
\* that hold different values.
C4_Witness ==
    /\ cap = 2
    /\ MapLen(cacheMap) = 2
    /\ last.op = "Get"
    /\ last.err = NoErr
    /\ last.ret = 2
    /\ Len(heap) = 2 /\ heap[1].val # heap[2].val

\* C5: after a successful Get(k) or Set(k, v) the head is the node that
\* holds k, the node the index maps k to, and its value is the first one a
\* Traverse visits.
C5_TouchedKeyIsHead ==
    (last.op \in {"Set", "Get"} /\ last.err = NoErr)
      => /\ cache # NULL
         /\ heap[cache].key = last.key
         /\ last.key \in DOMAIN cacheMap
         /\ cacheMap[last.key] = cache
         /\ LET t == TraverseBody(cache, heap, 0)
            IN  t.seen # <<>> /\ t.seen[1].arg = heap[cacheMap[last.key]].val

\* A Get has just promoted the first node allocated, which a second insert
\* had pushed off the head.
C5_Witness ==
    /\ last.op = "Get"
    /\ last.err = NoErr
    /\ Len(heap) = 2
    /\ cache = 1
    /\ heap[1].key = last.key

\* C6: Get of a key that is not in the index returns the key-not-found
\* error and no value, and leaves head, index and nodes unchanged.
C6_GetMissChangesNothing ==
    [][(last'.op = "Get" /\ last'.key \notin DOMAIN cacheMap)
         => /\ last'.err = KeyMiss
            /\ last'.ret = NULL
            /\ cacheMap' = cacheMap
            /\ cache' = cache
            /\ heap' = heap]_vars

\* A Get has just missed on a store that holds two entries.
C6_Witness ==
    /\ last.op = "Get"
    /\ last.err = KeyMiss
    /\ last.key \notin DOMAIN cacheMap
    /\ MapLen(cacheMap) = 2

\* C7: Set of a key already in the index leaves the set of indexed keys as
\* it was, does not call evict, and returns no error, at capacity too.
C7_SetPresentKeepsKeys ==
    [][(last'.op = "Set" /\ last'.key \in DOMAIN cacheMap)
         => /\ DOMAIN cacheMap' = DOMAIN cacheMap
            /\ evictLog' = <<>>
            /\ last'.err = NoErr]_vars

\* A Set has just updated a present key of a store at capacity with a
\* callback configured: a successful Set that did not call evict found the
\* key or inserted a node, and an insert leaves the head on the newest node.
C7_Witness ==
    /\ evict
    /\ cap = 2
    /\ MapLen(cacheMap) = cap
    /\ last.op = "Set"
    /\ last.err = NoErr
    /\ evictLog = <<>>
    /\ cache # Len(heap)

\* C8: Traverse calls visit on the stored values from the most recently to
\* the least recently used, each node at most once: if no visit fails, on
\* all of them, and it returns no error; if one fails, on the values up to
\* the failing one, and it returns that visit's error.
C8_TraverseVisitsRecencyOrder ==
    last.op = "Traverse"
      => /\ Len(visitLog) <= Len(RecencyOrder)
         /\ Visited = SubSeq(RecencyOrder, 1, Len(visitLog))
         /\ (\A i \in 1..Len(visitLog) : visitLog[i].ret = NoErr)
              => (Len(visitLog) = MapLen(cacheMap) /\ last.err = NoErr)
         /\ \A i \in 1..Len(visitLog) :
              visitLog[i].ret # NoErr
                => (i = Len(visitLog) /\ last.err = visitLog[i].ret)

\* C9: Traverse, completed or aborted by a failing visit, leaves head, index
\* and nodes (keys, values, links) unchanged.
C9_TraverseChangesNothing ==
    [][last'.op = "Traverse"
         => /\ cacheMap' = cacheMap
            /\ cache' = cache
            /\ heap' = heap]_vars

\* A Traverse of two entries has just run to completion.
C9_Witness ==
    /\ last.op = "Traverse"
    /\ last.err = NoErr
    /\ Len(visitLog) = 2
    /\ MapLen(cacheMap) = 2

Victim == heap[heap[cache].prev].key

\* The stored key whose value the last call handed to evict, if that call
\* failed: a failed Set leaves the head on the node it handed over.
OfferedByLast ==
    IF last.op = "Set" /\ last.err # NoErr /\ evictLog # <<>>
    THEN {heap[cache].key}
    ELSE {}

\* C11: evict is called exactly once for each value evicted from the
\* store: a Set that evicts a value calls it, and it is never called with a
\* stored value it has been called with before (here: by the call before).
C11_EvictOncePerStoredValue ==
    [][last'.op = "Set"
         => /\ (evict /\ Evicted # {}) => evictLog' # <<>>
            /\ (evictLog' # <<>>) => Victim \notin OfferedByLast]_vars

\* C11 as amended: a Set that evicts a value calls evict once, with that
\* value, and the call returns no error; a call of evict that returns no
\* error evicts the value it was handed; a call that returns an error
\* leaves the value stored under its key (to be handed to evict again by a
\* later Set); and Get and Traverse neither evict nor call evict.
C11_EvictOnceSuccessfullyPerEviction ==
    [][/\ last'.op = "Set"
           => /\ Len(evictLog') <= 1
              /\ (evict /\ Evicted # {})
                   => /\ evictLog' # <<>>
                      /\ evictLog'[1].ret = NoErr
              /\ (evictLog' # <<>> /\ evictLog'[1].ret = NoErr)
                   => /\ Evicted = {Victim}
                      /\ evictLog'[1].arg = heap[cacheMap[Victim]].val
              /\ (evictLog' # <<>> /\ evictLog'[1].ret # NoErr)
                   => /\ Evicted = {}
                      /\ Victim \in DOMAIN cacheMap'
                      /\ heap'[cacheMap'[Victim]].val = evictLog'[1].arg
       /\ last'.op # "Set" => (Evicted = {} /\ evictLog' = <<>>)]_vars

\* A Set has just failed on a full store of one node: the value handed to
\* evict is still stored, and the next Set of an absent key hands it over
\* again.
C11_Witness ==
    /\ cap = 1
    /\ last.op = "Set"
    /\ last.err = EvictErr
    /\ MapLen(cacheMap) = 1
    /\ heap[cache].val = evictLog[1].arg

\* The nodes met walking next from cur until the head c comes back (or for
\* fuel steps, or until a nil link).
RECURSIVE WalkNext(_, _, _, _)
WalkNext(c, h, cur, fuel) ==
    IF cur = c \/ fuel = 0 \/ cur \notin DOMAIN h THEN <<>>
    ELSE <<cur>> \o WalkNext(c, h, h[cur].next, fuel - 1)

\* The nodes of the list from the head c on, following next.
ListNodes(c, h) ==
    IF c = NULL THEN <<>> ELSE <<c>> \o WalkNext(c, h, h[c].next, Len(h))

\* The keys of the list from the head c on.
ListKeys(c, h) ==
    LET w == ListNodes(c, h) IN [i \in 1..Len(w) |-> h[w[i]].key]

\* C13: if evict fails during Set(k, v) of an absent key on a full store,
\* the index afterwards holds the same keys with the same values: a Get of
\* the key that was to be evicted succeeds with its value, and Get(k)
\* fails with key not found.
C13_FailedEvictKeepsIndex ==
    [][(SetAtCapacity /\ evictLog' # <<>> /\ evictLog'[1].ret # NoErr)
         => /\ DOMAIN cacheMap' = DOMAIN cacheMap
            /\ \A k \in DOMAIN cacheMap :
                 heap'[cacheMap'[k]].val = heap[cacheMap[k]].val
            /\ LET g == GetBody(cacheMap', cache', heap', Victim)
               IN  g.err = NoErr /\ g.ret = heap[cacheMap[Victim]].val
            /\ LET g == GetBody(cacheMap', cache', heap', last'.key)
               IN  g.err = KeyMiss /\ g.ret = NULL]_vars

\* A Set of an absent key has just failed on a full store of two nodes that
\* hold different values.
C13_Witness ==
    /\ cap = 2
    /\ MapLen(cacheMap) = 2
    /\ last.op = "Set"
    /\ last.err = EvictErr
    /\ last.key \notin DOMAIN cacheMap
    /\ heap[1].val # heap[2].val

\* C14: a Get(k) right after a successful Get(k) returns the same value and
\* leaves head, index and nodes as the first left them; and a Get or a Set
\* of the key already at the head changes no link, no key and not the head
\* (the Set changes the head's value only).
C14_PromotionIdempotent ==
    [][/\ (last'.op = "Get" /\ last'.err = NoErr)
           => LET g == GetBody(cacheMap', cache', heap', last'.key)
              IN  /\ g.err = NoErr
                  /\ g.ret = last'.ret
                  /\ g.cache = cache'
                  /\ g.heap = heap'
       /\ (last'.op \in {"Get", "Set"} /\ cache # NULL /\ last'.key = heap[cache].key)
           => /\ last'.err = NoErr
              /\ cache' = cache
              /\ cacheMap' = cacheMap
              /\ DOMAIN heap' = DOMAIN heap
              /\ \A n \in DOMAIN heap :
                   /\ heap'[n].prev = heap[n].prev
                   /\ heap'[n].next = heap[n].next
                   /\ heap'[n].key = heap[n].key
                   /\ (n # cache \/ last'.op = "Get") => heap'[n].val = heap[n].val]_vars

\* A Get has just returned the first value from the head of a full store
\* of two nodes.
C14_Witness ==
    /\ cap = 2
    /\ MapLen(cacheMap) = 2
    /\ last.op = "Get"
    /\ last.err = NoErr
    /\ last.ret = 1
    /\ heap[cache].key = last.key

C16_IndexMatchesNodes ==
    /\ \A k \in DOMAIN cacheMap :
         cacheMap[k] \in DOMAIN heap /\ heap[cacheMap[k]].key = k
    /\ \A k1, k2 \in DOMAIN cacheMap : cacheMap[k1] = cacheMap[k2] => k1 = k2

\* A Set has just reused the only node of a store of capacity 1 for a new
\* key, after evict took the old value.
C16_Witness ==
    /\ cap = 1
    /\ last.op = "Set"
    /\ last.err = NoErr
    /\ evictLog # <<>>
    /\ DOMAIN cacheMap = {last.key}

\* C17: no operation lowers the number of stored entries or of nodes; a
\* node is created only by a Set of an absent key while len(cacheMap) < cap,
\* one at a time; an eviction reuses the least recently used node in place;
\* and a head that is set never becomes nil again.
C17_EntriesNeverDecrease ==
    [][/\ MapLen(cacheMap') >= MapLen(cacheMap)
       /\ Len(heap') >= Len(heap)
       /\ Len(heap') # Len(heap)
            => /\ last'.op = "Set"
               /\ last'.key \notin DOMAIN cacheMap
               /\ MapLen(cacheMap) < cap
               /\ Len(heap') = Len(heap) + 1
               /\ MapLen(cacheMap') = MapLen(cacheMap) + 1
       /\ (SetAtCapacity /\ last'.err = NoErr)
            => /\ Len(heap') = Len(heap)
               /\ MapLen(cacheMap') = MapLen(cacheMap)
               /\ last'.key \in DOMAIN cacheMap'
               /\ cacheMap'[last'.key] = heap[cache].prev
       /\ cache # NULL => cache' # NULL]_vars

\* A Set has just evicted the second value from a full store of two nodes,
\* reusing its node.
C17_Witness ==
    /\ cap = 2
    /\ Len(heap) = 2
    /\ MapLen(cacheMap) = 2
    /\ last.op = "Set"
    /\ last.err = NoErr
    /\ evictLog # <<>>
    /\ evictLog[1].arg = 2

C19_ReplaceFindsHead ==
    [][SetAtCapacity => (cache # NULL /\ last'.err # Panic)]_vars

(***************************************************************************)
(* Properties of the methods called from several threads.                  *)
(***************************************************************************)

\* Thread t is between acquiring the lock and releasing it.
InCS(t) == thr[t].pc # "out"

\* The links, the head and the index.
store == <<cacheMap, cache, heap>>

\* No critical section of a Set or a Get overlaps another critical section.
Exclusive ==
    \A t, u \in Threads :
        (t # u /\ InCS(t) /\ InCS(u)) =>
            (thr[t].op = "Traverse" /\ thr[u].op = "Traverse")

\* A step that is not of thread t changes nothing of the store while t is
\* in its critical section.
NoForeignWrite ==
    \A t \in Threads :
        (InCS(t) /\ thr'[t] = thr[t]) => store' = store

\* A Set that called evict ends as the Set run in one piece from the state
\* it found when it got the lock.
AsOneAtATime ==
    \A t \in Threads :
        (thr[t].pc = "ret" /\ thr[t].pre # NoStore) =>
            LET r == SetBody(thr[t].pre.cacheMap, thr[t].pre.cache, thr[t].pre.heap,
                             cap, evict, thr[t].key, thr[t].val, thr[t].err)
            IN  /\ cacheMap = r.cacheMap
                /\ cache = r.cache
                /\ heap = r.heap
                /\ thr[t].err = r.err

\* C12: with several threads calling the same list, the critical section of
\* a Set or a Get, the run of evict included, overlaps no critical section
\* of another call, and only Traverse calls are inside together; no step of
\* another thread changes the links, the head or the index under a call that
\* is inside, and a Set interrupted by evict leaves what the same Set run
\* alone at the moment it got the lock leaves.
C12_CallsAreSerialized ==
    [][Exclusive' /\ NoForeignWrite /\ AsOneAtATime']_vars

\* A Set has returned from evict, the head stepped back on the way, while
\* another thread is outside and calling.
C12_Witness ==
    \E t, u \in Threads :
        /\ t # u
        /\ thr[t].pc = "ret" /\ thr[t].pre # NoStore
        /\ thr[t].pre.cache # cache
        /\ thr[u].pc = "out"

\* Two Traverse calls are inside together.
TraversesTogether ==
    \E t, u \in Threads :
        t # u /\ InCS(t) /\ InCS(u) /\ thr[t].op = "Traverse" /\ thr[u].op = "Traverse"

\* A call made from inside evict stays blocked, and the Set that called
\* evict keeps the lock.
ReentryBlocksForever ==
    \A t \in Threads :
        thr[t].pc = "inner" => (thr'[t].pc = "inner" /\ lock'.w = t)

\* A thread that is in no call holds the lock in no mode.
ReleasedOutside ==
    \A t \in Threads :
        thr[t].pc = "out" => (lock.w # t /\ t \notin lock.r)

\* A call that has the lock returns, unless its evict calls the list.
Completes ==
    \A t \in Threads :
        InCS(t) ~> (thr[t].pc = "out" \/ thr[t].pc = "inner")

\* C20: a call of Set, Get or Traverse made by evict from inside a Set never
\* gets the lock, and that Set never returns; a thread that has returned from
\* a call, with an error or without, holds the lock no more; and a call that
\* has the lock returns, provided its evict returns and calls no method of
\* the list.
C20_ReentryDeadlocksElseReleases ==
    /\ [][ReentryBlocksForever /\ ReleasedOutside']_vars
    /\ Completes

\* evict has called a method of the list from inside the Set of thread t,
\* which holds the lock, while another thread is outside.
C20_Witness ==
    \E t, u \in Threads :
        /\ thr[t].pc = "inner" /\ lock.w = t
        /\ thr[u].pc = "out"

====
